---------------------------- MODULE Spec2Model ----------------------------
(***************************************************************************)
(* A model of the factoryscript interpreter: the entry point `run`, the    *)
(* Station record with its constructors and in-bay operations, station     *)
(* discovery over the source lines, the neighbour ordering of a station    *)
(* under its modifiers, and the execution engine.                          *)
(***************************************************************************)
EXTENDS Integers, Sequences, FiniteSets, TLC

VARIABLES
    ns,         \* the namespace, a sequence of station types
    \* run and discover_stations
    src,        \* the source text, a sequence of characters
    lines,      \* src.split('\n')
    dLine,      \* discover_stations: index of the line being scanned (0-based)
    dPos,       \* discover_stations: characters of that line already scanned
    stations,   \* discover_stations: the stations built so far
    startCount, \* discover_stations: how many of them are entry stations
    start_i,    \* discover_stations: index of the entry station
    dResult,    \* discover_stations: the value returned
    \* one Station and the calls made on it
    station,    \* the station, NoStation before Station::new has returned one
    newArgs,    \* the arguments Station::new was called with
    newResult,  \* the value Station::new returned
    lastOp,     \* the last call made on the station
    \* get_neighbors
    map,        \* the character grid, a sequence of rows
    nStation,   \* the station whose neighbours are asked for
    neighbors,  \* the list get_neighbors returned
    \* run and runtime::execute
    pc,         \* the stage run is at
    processed,  \* what preprocessor::process makes of this source
    preResult,  \* what preprocessor::process returned
    execResult, \* what runtime::execute returned
    runResult,  \* what run returned
    graph,      \* execute: the wired stations
    entry,      \* execute: start_i
    active,     \* execute: the entry station is marked ready
    fired,      \* execute: the indices of the stations fired so far
    rounds      \* execute: scheduling rounds in a row in which nothing could fire

discoverVars == <<src, lines, dLine, dPos, stations, startCount, start_i, dResult>>
stationVars == <<station, newArgs, newResult, lastOp>>
neighborVars == <<map, nStation, neighbors>>
runVars == <<pc, processed, preResult, execResult, runResult, graph, entry, active, fired, rounds>>

vars == <<ns, discoverVars, stationVars, neighborVars, runVars>>

(***************************************************************************)
(* Bounds of the model.                                                    *)
(***************************************************************************)
MaxPieces == 4
MaxNs == 3
MaxBays == 2
MaxRows == 3
MaxCols == 4
MaxSpan == 3
MaxStations == 3
MaxRounds == 2

(***************************************************************************)
(* Characters and text.  A character is a string; the two characters Cat   *)
(* and EAcute stand for a 4-byte and a 2-byte UTF-8 character.             *)
(***************************************************************************)
Cat == "U+1F63C"
EAcute == "U+00E9"
NewLine == "\n"

CharBytes(c) == CASE c = Cat -> 4 [] c = EAcute -> 2 [] OTHER -> 1

Str_start == <<"s", "t", "a", "r", "t">>
Str_exit == <<"e", "x", "i", "t">>
Str_joint == <<"j", "o", "i", "n", "t">>
Str_foo == <<"f", "o", "o">>

Bracketed(id) == <<"[">> \o id \o <<"]">>

\* The fragments source texts are assembled from.
Pieces ==
    { <<" ">>, <<Cat>>, <<EAcute>>, <<NewLine>>,
      Bracketed(Str_start), Bracketed(Str_exit), Bracketed(Str_foo) }

RECURSIVE Flatten(_)
Flatten(ps) == IF ps = <<>> THEN <<>> ELSE Head(ps) \o Flatten(Tail(ps))

Sources == { Flatten(ps) : ps \in UNION { [1..n -> Pieces] : n \in 0..MaxPieces } }

RECURSIVE SplitWalk(_, _, _)
SplitWalk(s, cur, acc) ==
    IF s = <<>> THEN Append(acc, cur)
    ELSE IF Head(s) = NewLine THEN SplitWalk(Tail(s), <<>>, Append(acc, cur))
    ELSE SplitWalk(Tail(s), Append(cur, Head(s)), acc)

\* src.split('\n').collect()
Split(s) == SplitWalk(s, <<>>, <<>>)


RECURSIVE ByteLen(_)
\* str::len(): the length of a text in bytes
ByteLen(s) == IF s = <<>> THEN 0 ELSE CharBytes(Head(s)) + ByteLen(Tail(s))

(***************************************************************************)
(* Results: Ok(val) and Err(err).                                          *)
(***************************************************************************)
Ok(v) == [ok |-> TRUE, val |-> v]
Err(e) == [ok |-> FALSE, err |-> e]
Pending == [pending |-> TRUE]

(***************************************************************************)
(* SourceLocation, Direction, StationModifiers.                            *)
(***************************************************************************)
SourceLocation(l, c, n) == [line |-> l, col |-> c, len |-> n]
SourceLocation_none == SourceLocation(0, 0, 0)

NORTH == "NORTH"
EAST == "EAST"
SOUTH == "SOUTH"
WEST == "WEST"
Direction == {NORTH, SOUTH, EAST, WEST}

\* impl Not for Direction
Not(d) ==
    CASE d = NORTH -> SOUTH
      [] d = EAST -> WEST
      [] d = SOUTH -> NORTH
      [] d = WEST -> EAST

StationModifiers_default == [reverse |-> FALSE, priority |-> NORTH]
StationModifiers_reverse(self) == [self EXCEPT !.reverse = ~self.reverse]
StationModifiers_with_priority(self, new_priority) == [self EXCEPT !.priority = new_priority]

(***************************************************************************)
(* Station types and the namespace.  Of a station type the code at hand    *)
(* reads only its id; the arities are the registry's.                      *)
(***************************************************************************)
StationType(id, inputs, outputs) == [id |-> id, inputs |-> inputs, outputs |-> outputs]
T_start == StationType(Str_start, 0, 1)
T_exit == StationType(Str_exit, 1, 0)
T_joint == StationType(Str_joint, 1, 1)

\* builtins::MANIFEST, pushed entry by entry into the namespace by run
MANIFEST == <<T_start, T_exit, T_joint>>

\* station_type.has_id(identifier): identifier == name.id
has_id(station_type, identifier) == identifier = station_type.id

(***************************************************************************)
(* Pallets and in-bays.  A bay is None or Some(pallet).                    *)
(***************************************************************************)
None == [some |-> FALSE]
Some(p) == [some |-> TRUE, val |-> p]
Pallet == {"Empty", "Int", "Char"}

(***************************************************************************)
(* Station::new, Station::new_in_bay, Station::clear_in_bays.              *)
(***************************************************************************)
RECURSIVE LastMatch(_, _, _)
\* As FirstMatch, but the loop runs on after a match: the last match wins.
LastMatch(identifier, ns_, i) ==
    IF i > Len(ns_) THEN 0
    ELSE LET later == LastMatch(identifier, ns_, i + 1)
         IN IF later # 0 THEN later
            ELSE IF has_id(ns_[i], identifier) THEN i ELSE 0

RECURSIVE FirstMatch(_, _, _)
\* `for station_type in ns { if station_type.has_id(identifier) { return ... } }`
FirstMatch(identifier, ns_, i) ==
    IF i > Len(ns_) THEN 0
    ELSE IF has_id(ns_[i], identifier) THEN i
    ELSE FirstMatch(identifier, ns_, i + 1)

IdentifierError(loc, identifier) == [t |-> "IdentifierError", loc |-> loc, msg |-> identifier]

\* As Station::new, but the error is returned from inside the loop: only the
\* first entry of the namespace is ever compared.
Station_new_first_entry_only(identifier, loc, modifiers, ns_) ==
    IF Len(ns_) > 0 /\ has_id(ns_[1], identifier)
    THEN Ok([loc |-> loc, logic |-> ns_[1], modifiers |-> modifiers,
             in_bays |-> <<>>, out_bays |-> <<>>])
    ELSE Err(IdentifierError(loc, identifier))

\* As Station::new, but the station is built with SourceLocation::none().
Station_new_without_loc(identifier, loc, modifiers, ns_) ==
    LET i == FirstMatch(identifier, ns_, 1) IN
    IF i # 0
    THEN Ok([loc |-> SourceLocation_none, logic |-> ns_[i], modifiers |-> modifiers,
             in_bays |-> <<>>, out_bays |-> <<>>])
    ELSE Err(IdentifierError(loc, identifier))

Station_new(identifier, loc, modifiers, ns_) ==
    LET i == FirstMatch(identifier, ns_, 1) IN
    IF i # 0
    THEN Ok([loc |-> loc, logic |-> ns_[i], modifiers |-> modifiers,
             in_bays |-> <<>>, out_bays |-> <<>>])
    ELSE Err(IdentifierError(loc, identifier))

new_in_bay(self) == [self EXCEPT !.in_bays = Append(self.in_bays, None)]

\* As clear_in_bays, but by in_bays.clear(): the slots themselves go.
clear_in_bays_truncate(self) == [self EXCEPT !.in_bays = <<>>]

clear_in_bays(self) ==
    [self EXCEPT !.in_bays =
        [k \in 1..Len(self.in_bays) |-> IF self.in_bays[k].some THEN None ELSE self.in_bays[k]]]

(***************************************************************************)
(* Station discovery.                                                      *)
(***************************************************************************)
RECURSIVE CharIndexWalk(_, _, _, _)
\* walks the characters of s, i of them passed so far, taking up `bytes` bytes
CharIndexWalk(byte_offset, s, i, bytes) ==
    IF i >= Len(s) \/ bytes >= byte_offset THEN i
    ELSE CharIndexWalk(byte_offset, s, i + 1, bytes + CharBytes(s[i + 1]))

\* As get_char_index_from_byte_offset, but the byte offset is taken for the
\* column.
get_char_index_is_byte_offset(byte_offset, s) == byte_offset

get_char_index_from_byte_offset(byte_offset, s) == CharIndexWalk(byte_offset, s, 0, 0)

SetMin(S) == CHOOSE x \in S : \A y \in S : x <= y

NoMarker == [found |-> FALSE]

\* The next bracketed span of the line after its first `from` characters:
\* the 1-based character positions of its brackets.
NextMarker(line, from) ==
    LET opens == { o \in (from + 1)..Len(line) :
                     line[o] = "[" /\ \E c \in (o + 1)..Len(line) : line[c] = "]" }
    IN IF opens = {} THEN NoMarker
       ELSE LET o == SetMin(opens)
                c == SetMin({ k \in (o + 1)..Len(line) : line[k] = "]" })
            IN [found |-> TRUE, open |-> o, close |-> c]

\* The location of a match: its byte offset in the line translated to a
\* character column.
MarkerLoc(i, line, m) ==
    SourceLocation(i,
                   get_char_index_from_byte_offset(ByteLen(SubSeq(line, 1, m.open - 1)), line),
                   m.close - m.open + 1)

is_entry(self) == self.logic.id = Str_start

StructuralError == [t |-> "SyntaxError", loc |-> SourceLocation_none, msg |-> <<>>]

\* The value discovery returns once every line is scanned.
EntryCheck(sts, count, idx) ==
    IF count = 1 THEN Ok([stations |-> sts, start_i |-> idx]) ELSE Err(StructuralError)

NoStation == [none |-> TRUE]

\* The list a call returned, or that no call was made yet.
NotCalled == [called |-> FALSE]
Called(v) == [called |-> TRUE, val |-> v]

\* The parts of the state a specification leaves aside.
DiscoverIdle ==
    /\ src = <<>>
    /\ lines = <<>>
    /\ dLine = 0
    /\ dPos = 0
    /\ stations = <<>>
    /\ startCount = 0
    /\ start_i = 0
    /\ dResult = Pending

StationIdle ==
    /\ station = NoStation
    /\ newArgs = Pending
    /\ newResult = Pending
    /\ lastOp = [op |-> "none", n |-> 0]

NeighborIdle ==
    /\ map = <<>>
    /\ nStation = NoStation
    /\ neighbors = NotCalled

RunIdle ==
    /\ pc = "idle"
    /\ processed = Pending
    /\ preResult = Pending
    /\ execResult = Pending
    /\ runResult = Pending
    /\ graph = <<>>
    /\ entry = 0
    /\ active = FALSE
    /\ fired = {}
    /\ rounds = 0

DiscoverInit ==
    /\ src \in Sources
    /\ lines = Split(src)
    /\ ns = MANIFEST
    /\ dLine = 0
    /\ dPos = 0
    /\ stations = <<>>
    /\ startCount = 0
    /\ start_i = 0
    /\ dResult = Pending
    /\ StationIdle
    /\ NeighborIdle
    /\ RunIdle

\* One match of the scan: build the station, or return the error of Station::new.
DiscoverStation ==
    /\ dResult = Pending
    /\ dLine < Len(lines)
    /\ LET line == lines[dLine + 1]
           m == NextMarker(line, dPos)
       IN /\ m.found
          /\ LET identifier == SubSeq(line, m.open + 1, m.close - 1)
                 r == Station_new(identifier, MarkerLoc(dLine, line, m),
                                  StationModifiers_default, ns)
             IN IF r.ok
                THEN /\ stations' = Append(stations, r.val)
                     /\ startCount' = IF is_entry(r.val) THEN startCount + 1 ELSE startCount
                     /\ start_i' = IF is_entry(r.val) THEN Len(stations) ELSE start_i
                     /\ dPos' = m.close
                     /\ UNCHANGED <<dResult, dLine>>
                ELSE /\ dResult' = Err(r.err)
                     /\ stations' = <<>>
                     /\ UNCHANGED <<startCount, start_i, dPos, dLine>>
    /\ UNCHANGED <<src, lines, ns, stationVars, neighborVars, runVars>>

\* The line holds no further match: on to the next line.
DiscoverNextLine ==
    /\ dResult = Pending
    /\ dLine < Len(lines)
    /\ ~NextMarker(lines[dLine + 1], dPos).found
    /\ dLine' = dLine + 1
    /\ dPos' = 0
    /\ UNCHANGED <<src, lines, ns, stations, startCount, start_i, dResult>>
    /\ UNCHANGED <<stationVars, neighborVars, runVars>>

\* Every line is scanned: the entry check and the return.
DiscoverFinish ==
    /\ dResult = Pending
    /\ dLine = Len(lines)
    /\ dResult' = EntryCheck(stations, startCount, start_i)
    /\ stations' = <<>>
    /\ UNCHANGED <<src, lines, ns, dLine, dPos, startCount, start_i>>
    /\ UNCHANGED <<stationVars, neighborVars, runVars>>

DiscoverNext == DiscoverStation \/ DiscoverNextLine \/ DiscoverFinish

SpecDiscover == DiscoverInit /\ [][DiscoverNext]_vars

(***************************************************************************)
(* What the source text holds, read off the text itself.                   *)
(***************************************************************************)
\* The bracketed spans of the lines ls: line and column (both 0-based, the
\* column counted in characters), length, and the identifier inside.
Markers(ls) ==
    UNION { { [line |-> i - 1, col |-> w[1] - 1, len |-> w[2] - w[1] + 1,
               id |-> SubSeq(ls[i], w[1] + 1, w[2] - 1)] :
                w \in { v \in (1..Len(ls[i])) \X (1..Len(ls[i])) :
                          /\ v[1] < v[2]
                          /\ ls[i][v[1]] = "["
                          /\ ls[i][v[2]] = "]"
                          /\ \A k \in (v[1] + 1)..(v[2] - 1) : ls[i][k] \notin {"[", "]"} } } :
            i \in 1..Len(ls) }

Before(m1, m2) == m1.line < m2.line \/ (m1.line = m2.line /\ m1.col < m2.col)

\* The position (0-based) of marker m among the markers in reading order.
Rank(m, ms) == Cardinality({ m2 \in ms : Before(m2, m) })

StartMarkers(ls) == { m \in Markers(ls) : m.id = Str_start }

AllResolvable(ls) == \A m \in Markers(ls) : \E k \in 1..Len(MANIFEST) : MANIFEST[k].id = m.id

Returned == dResult # Pending

\* The expected values of the tests of discover_stations.
TestsOfDiscoverStations ==
    Returned =>
        /\ src = Bracketed(Str_start) =>
              /\ dResult.ok
              /\ dResult.val.start_i = 0
              /\ dResult.val.stations[1].loc = SourceLocation(0, 0, 7)
        /\ src = Bracketed(Str_exit) \o Bracketed(Str_exit) \o <<NewLine>>
                    \o Bracketed(Str_start) \o Bracketed(Str_exit) =>
              /\ dResult.ok
              /\ dResult.val.start_i = 2
              /\ Len(dResult.val.stations) = 4
        /\ src = <<>> => ~dResult.ok
        /\ src = Bracketed(Str_start) \o <<" ">> \o Bracketed(Str_start) => ~dResult.ok

\* C1: with every identifier resolvable, discover_stations returns Ok exactly
\* when the source holds exactly one start marker; with none or with two or
\* more it returns an error, which carries no station list and no entry index.
C1_EntryIffExactlyOneStart ==
    (Returned /\ AllResolvable(lines)) =>
        /\ dResult.ok <=> (Cardinality(StartMarkers(lines)) = 1)
        /\ ~dResult.ok =>
              /\ DOMAIN dResult = {"ok", "err"}
              /\ dResult.err.t = "SyntaxError"
              /\ stations = <<>>

\* C1's case: a source with two or more start markers, all identifiers
\* resolvable, has been scanned to the end and refused.
C1_Witness ==
    /\ Returned
    /\ AllResolvable(lines)
    /\ Cardinality(StartMarkers(lines)) >= 2
    /\ ~dResult.ok

\* C2: on success discover_stations returns one station per marker, in reading
\* order (line by line, left to right), each with loc = (line, character
\* column of the opening bracket, length of the span with both brackets), and
\* the entry index is the position of the start marker in that list.
C2_StationsInScanOrder ==
    (Returned /\ dResult.ok) =>
        LET ms == Markers(lines)
            sts == dResult.val.stations
        IN /\ Len(sts) = Cardinality(ms)
           /\ \A m \in ms :
                 /\ sts[Rank(m, ms) + 1].loc = SourceLocation(m.line, m.col, m.len)
                 /\ sts[Rank(m, ms) + 1].logic.id = m.id
           /\ \E m \in StartMarkers(lines) : dResult.val.start_i = Rank(m, ms)

\* C2's case: several stations on two lines, the start marker not the
\* first of them, and a multi-byte character ahead of a marker on its line.
C2_Witness ==
    /\ Returned
    /\ dResult.ok
    /\ Len(dResult.val.stations) >= 2
    /\ dResult.val.start_i >= 1
    /\ \E k \in 1..Len(dResult.val.stations) : dResult.val.stations[k].loc.line = 1
    /\ \E k \in 1..Len(dResult.val.stations) :
          LET l == dResult.val.stations[k].loc
          IN ByteLen(SubSeq(lines[l.line + 1], 1, l.col)) > l.col

\* C6: at a byte offset b on a character boundary of a line, the boundary
\* behind the line's first k characters, get_char_index_from_byte_offset gives
\* k, the number of characters that lie wholly before byte b; it gives b itself
\* exactly when each of those characters is one byte long.
C6_CharIndexCountsCharacters ==
    \A i \in 1..Len(lines) :
        \A k \in 0..Len(lines[i]) :
            LET b == ByteLen(SubSeq(lines[i], 1, k))
                n == get_char_index_from_byte_offset(b, lines[i])
            IN /\ n = k
               /\ (n = b) <=> (\A j \in 1..k : CharBytes(lines[i][j]) = 1)

\* C6's case: a station discovered behind a 4-byte character, its column
\* smaller than its byte offset.
C6_Witness ==
    \E k \in 1..Len(stations) :
        LET l == stations[k].loc
            s == lines[l.line + 1]
        IN /\ l.col >= 1
           /\ CharBytes(s[1]) = 4
           /\ ByteLen(SubSeq(s, 1, l.col)) = l.col + 3
           /\ get_char_index_from_byte_offset(l.col + 3, s) = l.col

(***************************************************************************)
(* One station: Station::new over some namespace, then the calls that      *)
(* touch its in-bays.                                                      *)
(***************************************************************************)
\* A second entry answering to the identifier "joint", with another arity.
T_joint2 == StationType(Str_joint, 2, 1)

Namespaces == UNION { [1..n -> {T_start, T_joint, T_joint2}] : n \in 0..MaxNs }

NewCalls ==
    { [identifier |-> id, loc |-> a.loc, modifiers |-> a.modifiers] :
        id \in {Str_start, Str_joint, Str_foo},
        a \in { [loc |-> SourceLocation_none, modifiers |-> StationModifiers_default],
                [loc |-> SourceLocation(1, 2, 7),
                 modifiers |-> StationModifiers_with_priority(
                                   StationModifiers_reverse(StationModifiers_default), EAST)] } }

StationInit ==
    /\ ns \in Namespaces
    /\ StationIdle
    /\ DiscoverIdle
    /\ NeighborIdle
    /\ RunIdle

\* let station = Station::new(identifier, loc, modifiers, &ns)
StationNew ==
    /\ newResult = Pending
    /\ \E a \in NewCalls :
          LET r == Station_new(a.identifier, a.loc, a.modifiers, ns)
          IN /\ newArgs' = a
             /\ newResult' = r
             /\ station' = IF r.ok THEN r.val ELSE NoStation
    /\ lastOp' = [op |-> "new", n |-> 0]
    /\ UNCHANGED <<ns, discoverVars, neighborVars, runVars>>

\* station.new_in_bay()
StationNewInBay ==
    /\ station # NoStation
    /\ Len(station.in_bays) < MaxBays
    /\ station' = new_in_bay(station)
    /\ lastOp' = [op |-> "new_in_bay", n |-> 0]
    /\ UNCHANGED <<ns, newArgs, newResult, discoverVars, neighborVars, runVars>>

\* station.in_bays.push(Some(pallet))
StationPushBay ==
    /\ station # NoStation
    /\ Len(station.in_bays) < MaxBays
    /\ \E p \in Pallet : station' = [station EXCEPT !.in_bays = Append(@, Some(p))]
    /\ lastOp' = [op |-> "push", n |-> 0]
    /\ UNCHANGED <<ns, newArgs, newResult, discoverVars, neighborVars, runVars>>

\* A pallet is put into an empty bay.
StationDeposit ==
    /\ station # NoStation
    /\ \E k \in 1..Len(station.in_bays), p \in Pallet :
          /\ ~station.in_bays[k].some
          /\ station' = [station EXCEPT !.in_bays[k] = Some(p)]
    /\ lastOp' = [op |-> "deposit", n |-> 0]
    /\ UNCHANGED <<ns, newArgs, newResult, discoverVars, neighborVars, runVars>>

\* station.clear_in_bays(); lastOp.n counts the bays that held a pallet
StationClearInBays ==
    /\ station # NoStation
    /\ station' = clear_in_bays(station)
    /\ lastOp' = [op |-> "clear_in_bays",
                  n |-> Cardinality({ k \in 1..Len(station.in_bays) : station.in_bays[k].some })]
    /\ UNCHANGED <<ns, newArgs, newResult, discoverVars, neighborVars, runVars>>

StationNext ==
    \/ StationNew
    \/ StationNewInBay
    \/ StationPushBay
    \/ StationDeposit
    \/ StationClearInBays

SpecStation == StationInit /\ [][StationNext]_vars

\* C10: Station::new returns a station exactly when some entry of the
\* namespace answers to the identifier; the station refers to the first such
\* entry in namespace order, keeps the loc and the modifiers given, and has no
\* in-bays and no out-bays; otherwise it returns an IdentifierError located at
\* the loc given, and no station.
C10_NewResolvesFirstMatch ==
    newResult # Pending =>
        LET matching == { k \in 1..Len(ns) : ns[k].id = newArgs.identifier }
        IN /\ newResult.ok <=> (matching # {})
           /\ newResult.ok =>
                 /\ \E k \in matching :
                       /\ \A j \in matching : k <= j
                       /\ newResult.val.logic = ns[k]
                 /\ newResult.val.loc = newArgs.loc
                 /\ newResult.val.modifiers = newArgs.modifiers
                 /\ newResult.val.in_bays = <<>>
                 /\ newResult.val.out_bays = <<>>
           /\ ~newResult.ok =>
                 /\ newResult.err.t = "IdentifierError"
                 /\ newResult.err.loc = newArgs.loc
                 /\ DOMAIN newResult = {"ok", "err"}
                 /\ station = NoStation

\* C10's case: two different entries of the namespace answer to the
\* identifier, behind an entry that does not, and Station::new has returned.
C10_Witness ==
    /\ newResult # Pending
    /\ newResult.ok
    /\ newArgs.loc # SourceLocation_none
    /\ \E j, k \in 1..Len(ns) :
          /\ 1 < j
          /\ j < k
          /\ ns[1].id # newArgs.identifier
          /\ ns[j].id = newArgs.identifier
          /\ ns[k].id = newArgs.identifier
          /\ ns[j] # ns[k]

\* C8 as stated: once the station exists the length of in_bays never changes.
C8_Original ==
    [][(station # NoStation /\ station' # NoStation)
          => Len(station'.in_bays) = Len(station.in_bays)]_vars

\* C8, amended: Station::new creates the station with no in-bays; afterwards
\* in_bays never shrinks and grows only one slot at a time, by new_in_bay (an
\* empty slot) or by a push; clear_in_bays and deposits change only the
\* contents of slots, and clear_in_bays leaves every slot empty without
\* changing the number of slots.
C8_InBaysOnlyGrowByAppend ==
    [][/\ (station = NoStation /\ station' # NoStation) => station'.in_bays = <<>>
       /\ (station # NoStation) =>
             /\ station' # NoStation
             /\ Len(station'.in_bays) >= Len(station.in_bays)
             /\ Len(station'.in_bays) # Len(station.in_bays) =>
                   /\ lastOp'.op \in {"new_in_bay", "push"}
                   /\ Len(station'.in_bays) = Len(station.in_bays) + 1
                   /\ SubSeq(station'.in_bays, 1, Len(station.in_bays)) = station.in_bays
                   /\ lastOp'.op = "new_in_bay" => station'.in_bays[Len(station'.in_bays)] = None
             /\ lastOp'.op = "clear_in_bays" =>
                   /\ Len(station'.in_bays) = Len(station.in_bays)
                   /\ \A k \in 1..Len(station'.in_bays) : station'.in_bays[k] = None
      ]_vars

\* C8's case: clear_in_bays has emptied a station all of whose bays, two or
\* more, held a pallet.
C8_Witness ==
    /\ station # NoStation
    /\ lastOp.op = "clear_in_bays"
    /\ lastOp.n >= 2
    /\ lastOp.n = Len(station.in_bays)
    /\ \A k \in 1..Len(station.in_bays) : station.in_bays[k] = None

(***************************************************************************)
(* get_neighbors: the cells next to a station's span, direction by         *)
(* direction, in the order the station's modifiers ask for.  An entry is   *)
(* <<line, column, direction>>.                                            *)
(***************************************************************************)
ReverseSeq(s) == [k \in 1..Len(s) |-> s[Len(s) + 1 - k]]

\* The cells above the span, left to right.
NorthGroup(map_, loc) ==
    IF loc.line > 0
    THEN [k \in 1..loc.len |-> <<loc.line - 1, loc.col + k - 1, NORTH>>]
    ELSE <<>>

\* The cell right of the span.
EastGroup(map_, loc) ==
    IF loc.col + loc.len < Len(map_[loc.line + 1])
    THEN << <<loc.line, loc.col + loc.len, EAST>> >>
    ELSE <<>>

\* As SouthGroup, but left to right.
SouthGroup_ascending(map_, loc) ==
    IF loc.line + 1 < Len(map_)
    THEN [k \in 1..loc.len |-> <<loc.line + 1, loc.col + k - 1, SOUTH>>]
    ELSE <<>>

\* The cells below the span as the clockwise walk meets them, right to left.
SouthGroup(map_, loc) ==
    IF loc.line + 1 < Len(map_)
    THEN [k \in 1..loc.len |-> <<loc.line + 1, loc.col + loc.len - k, SOUTH>>]
    ELSE <<>>

\* The cell left of the span.
WestGroup(map_, loc) ==
    IF loc.col > 0
    THEN << <<loc.line, loc.col - 1, WEST>> >>
    ELSE <<>>

\* The group of one direction, in clockwise order.
Group(map_, loc, d) ==
    CASE d = NORTH -> NorthGroup(map_, loc)
      [] d = EAST -> EastGroup(map_, loc)
      [] d = SOUTH -> SouthGroup(map_, loc)
      [] d = WEST -> WestGroup(map_, loc)

Clockwise == <<NORTH, EAST, SOUTH, WEST>>

DirIndex(d) == CHOOSE k \in 1..4 : Clockwise[k] = d

\* As DirectionOrder, but from NORTH whatever the priority.
DirectionOrder_from_north(modifiers) ==
    IF modifiers.reverse
    THEN [k \in 1..4 |-> Clockwise[((1 - k + 4) % 4) + 1]]
    ELSE Clockwise

\* The directions in the order of the modifiers: from the priority on,
\* clockwise, or counter-clockwise when reversed.
DirectionOrder(modifiers) ==
    LET p == DirIndex(modifiers.priority) - 1
    IN IF modifiers.reverse
       THEN [k \in 1..4 |-> Clockwise[((p - (k - 1) + 4) % 4) + 1]]
       ELSE [k \in 1..4 |-> Clockwise[((p + (k - 1)) % 4) + 1]]

\* As OrientedGroup, but a group keeps its clockwise order when reversed.
OrientedGroup_unmirrored(map_, loc, modifiers, d) == Group(map_, loc, d)

\* The group of one direction as emitted under the modifiers: the
\* counter-clockwise walk meets the cells of a group in the opposite order.
OrientedGroup(map_, loc, modifiers, d) ==
    IF modifiers.reverse THEN ReverseSeq(Group(map_, loc, d)) ELSE Group(map_, loc, d)

get_neighbors(map_, self) ==
    LET order == DirectionOrder(self.modifiers)
        g(k) == OrientedGroup(map_, self.loc, self.modifiers, order[k])
    IN g(1) \o g(2) \o g(3) \o g(4)

\* A grid of blanks holding the station's span on its line.
MapOf(rows, cols, loc) ==
    [r \in 1..rows |->
        [c \in 1..cols |->
            IF r # loc.line + 1 \/ c <= loc.col \/ c > loc.col + loc.len THEN " "
            ELSE IF c = loc.col + 1 THEN "["
            ELSE IF c = loc.col + loc.len THEN "]"
            ELSE "x"]]

NeighborInit ==
    /\ \E rows \in 1..MaxRows, cols \in 2..MaxCols :
          \E l \in 0..(rows - 1), n \in 2..MaxSpan, c \in 0..(cols - 2) :
              /\ c + n <= cols
              /\ map = MapOf(rows, cols, SourceLocation(l, c, n))
              /\ nStation = [loc |-> SourceLocation(l, c, n), logic |-> T_joint,
                             modifiers |-> StationModifiers_default,
                             in_bays |-> <<>>, out_bays |-> <<>>]
    /\ neighbors = NotCalled
    /\ ns = MANIFEST
    /\ DiscoverIdle
    /\ StationIdle
    /\ RunIdle

\* station.modifiers = station.modifiers.reverse()
NeighborReverse ==
    /\ nStation' = [nStation EXCEPT !.modifiers = StationModifiers_reverse(@)]
    /\ neighbors' = NotCalled
    /\ UNCHANGED <<map, ns, discoverVars, stationVars, runVars>>

\* station.modifiers = station.modifiers.with_priority(d)
NeighborWithPriority ==
    /\ \E d \in Direction :
          /\ d # nStation.modifiers.priority
          /\ nStation' = [nStation EXCEPT !.modifiers = StationModifiers_with_priority(@, d)]
    /\ neighbors' = NotCalled
    /\ UNCHANGED <<map, ns, discoverVars, stationVars, runVars>>

\* get_neighbors(&map, &station)
NeighborGet ==
    /\ neighbors = NotCalled
    /\ neighbors' = Called(get_neighbors(map, nStation))
    /\ UNCHANGED <<map, nStation, ns, discoverVars, stationVars, runVars>>

NeighborNext == NeighborReverse \/ NeighborWithPriority \/ NeighborGet

SpecNeighbors == NeighborInit /\ [][NeighborNext]_vars

(***************************************************************************)
(* The expected values of the tests of get_neighbors.                      *)
(***************************************************************************)
TestStation(l, c, n, modifiers) ==
    [loc |-> SourceLocation(l, c, n), logic |-> T_joint, modifiers |-> modifiers,
     in_bays |-> <<>>, out_bays |-> <<>>]

TestMap == MapOf(3, 4, SourceLocation(1, 1, 2))

TestGet(modifiers) == get_neighbors(TestMap, TestStation(1, 1, 2, modifiers))

Rev(d) == StationModifiers_with_priority(StationModifiers_reverse(StationModifiers_default), d)
Fwd(d) == StationModifiers_with_priority(StationModifiers_default, d)

test_get_neighbors_on_border ==
    /\ get_neighbors(MapOf(1, 4, SourceLocation(0, 1, 2)),
                     TestStation(0, 1, 2, StationModifiers_default))
          = << <<0, 3, EAST>>, <<0, 0, WEST>> >>
    /\ get_neighbors(MapOf(3, 2, SourceLocation(1, 0, 2)),
                     TestStation(1, 0, 2, StationModifiers_default))
          = << <<0, 0, NORTH>>, <<0, 1, NORTH>>, <<2, 1, SOUTH>>, <<2, 0, SOUTH>> >>

test_get_neighbors_none ==
    get_neighbors(MapOf(1, 2, SourceLocation(0, 0, 2)),
                  TestStation(0, 0, 2, StationModifiers_default)) = <<>>

test_get_neighbors_reversed ==
    /\ TestGet(StationModifiers_reverse(StationModifiers_default))
          = << <<0, 2, NORTH>>, <<0, 1, NORTH>>, <<1, 0, WEST>>,
               <<2, 1, SOUTH>>, <<2, 2, SOUTH>>, <<1, 3, EAST>> >>
    /\ TestGet(Rev(EAST))
          = << <<1, 3, EAST>>, <<0, 2, NORTH>>, <<0, 1, NORTH>>,
               <<1, 0, WEST>>, <<2, 1, SOUTH>>, <<2, 2, SOUTH>> >>
    /\ TestGet(Rev(SOUTH))
          = << <<2, 1, SOUTH>>, <<2, 2, SOUTH>>, <<1, 3, EAST>>,
               <<0, 2, NORTH>>, <<0, 1, NORTH>>, <<1, 0, WEST>> >>
    /\ TestGet(Rev(WEST))
          = << <<1, 0, WEST>>, <<2, 1, SOUTH>>, <<2, 2, SOUTH>>,
               <<1, 3, EAST>>, <<0, 2, NORTH>>, <<0, 1, NORTH>> >>

test_get_neighbors_with_direction ==
    /\ TestGet(Fwd(EAST))
          = << <<1, 3, EAST>>, <<2, 2, SOUTH>>, <<2, 1, SOUTH>>,
               <<1, 0, WEST>>, <<0, 1, NORTH>>, <<0, 2, NORTH>> >>
    /\ TestGet(Fwd(SOUTH))
          = << <<2, 2, SOUTH>>, <<2, 1, SOUTH>>, <<1, 0, WEST>>,
               <<0, 1, NORTH>>, <<0, 2, NORTH>>, <<1, 3, EAST>> >>
    /\ TestGet(Fwd(WEST))
          = << <<1, 0, WEST>>, <<0, 1, NORTH>>, <<0, 2, NORTH>>,
               <<1, 3, EAST>>, <<2, 2, SOUTH>>, <<2, 1, SOUTH>> >>

\* The same call as the first of test_get_neighbors_with_direction, with the
\* list expected of priority NORTH: the two tests cannot both pass.
test_get_neighbors ==
    TestGet(Fwd(EAST))
       = << <<0, 1, NORTH>>, <<0, 2, NORTH>>, <<1, 3, EAST>>,
            <<2, 2, SOUTH>>, <<2, 1, SOUTH>>, <<1, 0, WEST>> >>

TestsOfGetNeighbors ==
    /\ test_get_neighbors_on_border
    /\ test_get_neighbors_none
    /\ test_get_neighbors_reversed
    /\ test_get_neighbors_with_direction
    /\ ~test_get_neighbors

TestsOfCharIndex ==
    /\ get_char_index_from_byte_offset(4, <<Cat, "a", "b", "c", "d">>) = 1
    /\ get_char_index_from_byte_offset(6, <<Cat, "a", "b", "c", "d">>) = 3
    /\ get_char_index_from_byte_offset(2, <<"a", "b", "c", "d">>) = 2
    /\ get_char_index_from_byte_offset(14, <<Cat, "a", Cat, "b", Cat, "c">>) = 5

(***************************************************************************)
(* The neighbourhood of a span, read off the grid.                         *)
(***************************************************************************)
DRow(d) == CASE d = NORTH -> -1 [] d = SOUTH -> 1 [] OTHER -> 0
DCol(d) == CASE d = EAST -> 1 [] d = WEST -> -1 [] OTHER -> 0

InSpan(loc, r, c) == r = loc.line /\ loc.col <= c /\ c < loc.col + loc.len

\* The cells of the grid one step in direction d from a cell of the span.
AdjacentCells(map_, loc) ==
    { <<r, c, d>> \in (0..(Len(map_) - 1)) \X (0..(MaxCols + 1)) \X Direction :
        /\ c < Len(map_[r + 1])
        /\ ~InSpan(loc, r, c)
        /\ InSpan(loc, r - DRow(d), c - DCol(d)) }

Range(s) == { s[k] : k \in 1..Len(s) }

\* Steps from direction p to direction d, clockwise and counter-clockwise.
CwDist(p, d) == (DirIndex(d) - DirIndex(p) + 4) % 4
CcwDist(p, d) == (DirIndex(p) - DirIndex(d) + 4) % 4

\* s with its last n elements moved to the front.
RotateRight(s, n) ==
    [k \in 1..Len(s) |-> IF k <= n THEN s[Len(s) - n + k] ELSE s[k - n]]

NeighborsOf(modifiers) == get_neighbors(map, [nStation EXCEPT !.modifiers = modifiers])

C4_ReverseMirrors ==
    (neighbors.called /\ nStation.modifiers.reverse) =>
        LET l == neighbors.val
            p == nStation.modifiers.priority
            f == NeighborsOf([reverse |-> FALSE, priority |-> p])
            np == Cardinality({ k \in 1..Len(f) : f[k][3] = p })
        IN /\ Range(l) = Range(f)
           /\ Len(l) = Len(f)
           /\ \A k \in 1..np : l[k][3] = p
           /\ \A a, b \in 1..Len(l) : a < b => CcwDist(p, l[a][3]) <= CcwDist(p, l[b][3])
           /\ l = RotateRight(ReverseSeq(f), np)

\* C4's case: a reversed station with neighbours in all four directions, two
\* of them in the group of its priority, and a list asked for.
C4_Witness ==
    /\ neighbors.called
    /\ nStation.modifiers.reverse
    /\ nStation.modifiers.priority = SOUTH
    /\ Len(neighbors.val) >= 6
    /\ neighbors.val[1][3] = SOUTH
    /\ neighbors.val[2][3] = SOUTH
    /\ neighbors.val[3][3] = EAST

\* C5 as stated: whatever the modifiers, the NORTH and the SOUTH group are in
\* ascending column order and the EAST and the WEST group in ascending row
\* order.
C5_Original ==
    neighbors.called =>
        \A a, b \in 1..Len(neighbors.val) :
            LET x == neighbors.val[a]
                y == neighbors.val[b]
            IN (a < b /\ x[3] = y[3]) =>
                  IF x[3] \in {NORTH, SOUTH} THEN x[2] < y[2] ELSE x[1] < y[1]

\* C5, amended: the entries of a group follow the walk around the station.
\* With reverse=false the NORTH group is in ascending and the SOUTH group in
\* descending column order; with reverse=true the NORTH group is in descending
\* and the SOUTH group in ascending column order; the EAST and the WEST group
\* hold at most one entry each, a station spanning one line.
C5_GroupsFollowTheWalk ==
    neighbors.called =>
        LET l == neighbors.val
            rev == nStation.modifiers.reverse
        IN /\ \A a, b \in 1..Len(l) :
                 (a < b /\ l[a][3] = l[b][3]) =>
                    /\ l[a][3] \in {NORTH, SOUTH}
                    /\ b = a + 1 => l[b][2] = (IF (l[a][3] = NORTH) # rev
                                               THEN l[a][2] + 1 ELSE l[a][2] - 1)
           /\ \A d \in {EAST, WEST} : Cardinality({ k \in 1..Len(l) : l[k][3] = d }) <= 1

\* C5's case: a reversed station with several cells above and below it.
C5_Witness ==
    /\ neighbors.called
    /\ nStation.modifiers.reverse
    /\ Cardinality({ k \in 1..Len(neighbors.val) : neighbors.val[k][3] = NORTH }) >= 2
    /\ Cardinality({ k \in 1..Len(neighbors.val) : neighbors.val[k][3] = SOUTH }) >= 2
    /\ \E k \in 1..Len(neighbors.val) : neighbors.val[k][3] = EAST

(***************************************************************************)
(* run: the namespace, preprocessing, execution.                           *)
(***************************************************************************)
Unit == <<>>

\* As run_after_preprocess, but the error is dropped and run goes on.
run_ignoring_error(r) == [pc |-> "execute", result |-> Pending]

\* run on the value of preprocessor::process(&lines, &namespace), by `?`
run_after_preprocess(r) ==
    IF r.ok THEN [pc |-> "execute", result |-> Pending]
    ELSE [pc |-> "returned", result |-> Err(r.err)]

\* run on the value of runtime::execute(...), by `?`, then Ok(())
run_after_execute(r) == IF r.ok THEN Ok(Unit) ELSE Err(r.err)

(***************************************************************************)
(* The execution engine.  Stations are numbered from 0; an out-bay is         *)
(* <<target station, target in-bay>>, both from 0.                         *)
(***************************************************************************)
\* An arithmetic station type: it takes an Int and gives an Int.
Str_inc == <<"i", "n", "c">>
T_inc == StationType(Str_inc, 1, 1)
EngineTypes == {T_start, T_exit, T_joint, T_inc}

is_terminal(self) == self.logic.id = Str_exit

OperandError(loc) == [t |-> "OperandError", loc |-> loc, msg |-> <<>>]
DeadlockReport == [t |-> "Deadlock", loc |-> SourceLocation_none, msg |-> <<>>]

\* As OnNoReady, but the loop just ends and execute returns Ok(()).
OnNoReady_success == Ok(Unit)

\* What execute returns when no station is ready: the deadlock.
OnNoReady == Err(DeadlockReport)

\* The out-bays station i may have: none, or one leading to an in-bay that
\* exists.
WireOptions(types, i) ==
    IF types[i].outputs = 0 THEN { <<>> }
    ELSE { <<>> } \cup
         { << w >> : w \in { v \in (0..(Len(types) - 1)) \X (0..1) :
                               v[2] < types[v[1] + 1].inputs } }

RECURSIVE Wirings(_, _)
\* The out-bays of the first i stations.
Wirings(types, i) ==
    IF i = 0 THEN { <<>> }
    ELSE { Append(v[1], v[2]) : v \in Wirings(types, i - 1) \X WireOptions(types, i) }

\* A wired station list as preprocessing hands it over: as many in-bays as
\* the type takes inputs.
GraphOf(types, wires) ==
    [i \in 1..Len(types) |->
        [loc |-> SourceLocation(i - 1, 0, Len(types[i].id) + 2),
         logic |-> types[i],
         modifiers |-> StationModifiers_default,
         in_bays |-> [k \in 1..types[i].inputs |-> None],
         out_bays |-> wires[i]]]

\* The station types of n stations, one of them the entry station.
TypeLists(n) ==
    { ty \in [1..n -> EngineTypes] : Cardinality({ i \in 1..n : ty[i] = T_start }) = 1 }

EntryOf(g) == (CHOOSE i \in 1..Len(g) : g[i].logic = T_start) - 1

PreprocessErrors ==
    { StructuralError, IdentifierError(SourceLocation(0, 0, 5), Str_foo) }

\* Station i is ready: its required in-bays all hold a pallet; the entry
\* station is ready while it is marked.
Ready(g, e, act, i) ==
    \/ i = e /\ act
    \/ /\ g[i + 1].logic.inputs > 0
       /\ \A k \in 1..Len(g[i + 1].in_bays) : g[i + 1].in_bays[k].some

\* The out-bays the outputs of station i go to.
UsedOutBays(g, i) ==
    { k \in 1..Len(g[i + 1].out_bays) : k <= g[i + 1].logic.outputs }

\* An output of station i would go to a bay that holds a pallet.
Blocked(g, i) ==
    \E k \in UsedOutBays(g, i) :
        g[g[i + 1].out_bays[k][1] + 1].in_bays[g[i + 1].out_bays[k][2] + 1].some

\* The transformation of a station type on the pallets of the in-bays.
Transform(self) ==
    CASE self.logic.id = Str_start -> Ok(<<"Empty">>)
      [] self.logic.id = Str_joint -> Ok(<<self.in_bays[1].val>>)
      [] self.logic.id = Str_inc ->
            IF self.in_bays[1].val = "Int"
            THEN Ok(<<"Int">>) ELSE Err(OperandError(self.loc))
      [] OTHER -> Ok(<<>>)

\* The station list after station i consumed its inputs and its outputs
\* `outs` were put into the bays its out-bays name.
Deposited(g, i, outs) ==
    LET g1 == [g EXCEPT ![i + 1] = clear_in_bays(@)]
    IN [j \in 1..Len(g1) |->
          [g1[j] EXCEPT !.in_bays =
              [b \in 1..Len(g1[j].in_bays) |->
                  IF \E k \in UsedOutBays(g, i) :
                        /\ k <= Len(outs)
                        /\ g[i + 1].out_bays[k] = <<j - 1, b - 1>>
                  THEN Some(outs[CHOOSE k \in UsedOutBays(g, i) :
                                    k <= Len(outs) /\ g[i + 1].out_bays[k] = <<j - 1, b - 1>>])
                  ELSE g1[j].in_bays[b]]]]

StationIndices == 0..(Len(graph) - 1)
ReadySet == { i \in StationIndices : Ready(graph, entry, active, i) }
FireableSet == { i \in ReadySet : ~Blocked(graph, i) }
Executing == pc = "execute" /\ execResult = Pending

RunSources == { Bracketed(Str_start) \o <<NewLine>> \o Bracketed(Str_exit) }

RunInit ==
    /\ src \in RunSources
    /\ lines = <<>>
    /\ ns = <<>>
    /\ pc = "namespace"
    /\ \/ \E e \in PreprocessErrors : processed = Err(e)
       \/ \E n \in 1..MaxStations :
             \E types \in TypeLists(n) :
                \E wires \in Wirings(types, n) : processed = Ok(GraphOf(types, wires))
    /\ dLine = 0
    /\ dPos = 0
    /\ stations = <<>>
    /\ startCount = 0
    /\ start_i = 0
    /\ dResult = Pending
    /\ preResult = Pending
    /\ execResult = Pending
    /\ runResult = Pending
    /\ graph = <<>>
    /\ entry = 0
    /\ active = FALSE
    /\ fired = {}
    /\ rounds = 0
    /\ StationIdle
    /\ NeighborIdle

\* for name in MANIFEST.iter() { namespace.push(name) }; src.split('\n')
RunNamespace ==
    /\ pc = "namespace"
    /\ ns' = MANIFEST
    /\ lines' = Split(src)
    /\ pc' = "preprocess"
    /\ UNCHANGED <<src, dLine, dPos, stations, startCount, start_i, dResult>>
    /\ UNCHANGED <<processed, preResult, execResult, runResult, graph, entry, active, fired, rounds>>
    /\ UNCHANGED <<stationVars, neighborVars>>

\* preprocessor::process(&lines, &namespace)?
RunPreprocess ==
    /\ pc = "preprocess"
    /\ LET r == processed
       IN /\ preResult' = r
          /\ pc' = run_after_preprocess(r).pc
          /\ runResult' = run_after_preprocess(r).result
          /\ graph' = IF r.ok THEN r.val ELSE <<>>
          /\ entry' = IF r.ok THEN EntryOf(r.val) ELSE 0
          /\ active' = r.ok
    /\ UNCHANGED <<ns, discoverVars, processed, execResult, fired, rounds, stationVars, neighborVars>>

\* A scheduling round: the ready station of lowest index whose outputs have
\* room fires.
ExecFire ==
    /\ Executing
    /\ FireableSet # {}
    /\ LET i == SetMin(FireableSet)
           r == Transform(graph[i + 1])
       IN /\ fired' = fired \cup {i}
          /\ IF is_terminal(graph[i + 1])
             THEN /\ execResult' = Ok(Unit)
                  /\ UNCHANGED <<graph, active>>
             ELSE IF ~r.ok
             THEN /\ execResult' = Err(r.err)
                  /\ UNCHANGED <<graph, active>>
             ELSE /\ graph' = Deposited(graph, i, r.val)
                  /\ active' = (active /\ i # entry)
                  /\ UNCHANGED execResult
    /\ rounds' = 0
    /\ UNCHANGED <<ns, discoverVars, pc, processed, preResult, runResult, entry, stationVars, neighborVars>>

\* A scheduling round in which every ready station is blocked: retried, and
\* after MaxRounds such rounds in a row reported as a deadlock.
ExecBlocked ==
    /\ Executing
    /\ ReadySet # {}
    /\ FireableSet = {}
    /\ IF rounds < MaxRounds
       THEN rounds' = rounds + 1 /\ UNCHANGED execResult
       ELSE execResult' = Err(DeadlockReport) /\ UNCHANGED rounds
    /\ UNCHANGED <<ns, discoverVars, pc, processed, preResult, runResult, graph, entry, active, fired>>
    /\ UNCHANGED <<stationVars, neighborVars>>

\* No station is ready: the deadlock is reported.
ExecDeadlock ==
    /\ Executing
    /\ ReadySet = {}
    /\ execResult' = OnNoReady
    /\ UNCHANGED <<ns, discoverVars, pc, processed, preResult, runResult, graph, entry, active, fired, rounds>>
    /\ UNCHANGED <<stationVars, neighborVars>>

\* runtime::execute(...)?; Ok(())
RunReturn ==
    /\ pc = "execute"
    /\ execResult # Pending
    /\ runResult' = run_after_execute(execResult)
    /\ pc' = "returned"
    /\ UNCHANGED <<ns, discoverVars, processed, preResult, execResult, graph, entry, active, fired, rounds>>
    /\ UNCHANGED <<stationVars, neighborVars>>

RunNext ==
    \/ RunNamespace
    \/ RunPreprocess
    \/ ExecFire
    \/ ExecBlocked
    \/ ExecDeadlock
    \/ RunReturn

\* run is one thread of control: a stage that can be taken is taken.
SpecRun == RunInit /\ [][RunNext]_vars /\ WF_vars(RunNext)

\* Execution was started: the engine is running or has run.
ExecuteStarted == pc = "execute" \/ execResult # Pending \/ fired # {}

\* C7: run preprocesses, then executes; execute is never started when
\* preprocessing returned an error, which run returns unchanged; and run
\* returns Ok only after execute returned Ok.
C7_PreprocessThenExecute ==
    /\ ExecuteStarted => (preResult # Pending /\ preResult.ok)
    /\ (preResult # Pending /\ ~preResult.ok) =>
          /\ pc = "returned"
          /\ runResult = preResult
          /\ ~ExecuteStarted
    /\ (runResult # Pending /\ runResult.ok) =>
          /\ pc = "returned"
          /\ preResult.ok
          /\ execResult = Ok(Unit)
    /\ pc = "returned" => runResult # Pending

\* C7's case: preprocessing has returned an identifier-resolution error and
\* run has returned.
C7_Witness ==
    /\ pc = "returned"
    /\ preResult # Pending
    /\ ~preResult.ok
    /\ preResult.err.t = "IdentifierError"
    /\ runResult = preResult

\* Station i takes one input and no out-bay of the graph leads to its in-bay.
UnfedSingle(i) ==
    /\ graph[i + 1].logic.inputs = 1
    /\ \A j \in 1..Len(graph) :
          \A k \in 1..Len(graph[j].out_bays) : graph[j].out_bays[k] # <<i, 0>>

\* C9: when execution reaches a state in which no station is ready and no
\* terminal station has fired, the engine's next step reports the deadlock,
\* and run returns it: an outcome that is neither success nor an operand
\* error.  A station whose single in-bay no wiring feeds never fires.
C9_DeadlockReported ==
    /\ [][(Executing /\ ReadySet = {}) => execResult' = Err(DeadlockReport)]_vars
    /\ (Executing /\ ReadySet = {}) ~>
          (pc = "returned" /\ runResult = Err(DeadlockReport))
    /\ [](\A i \in StationIndices : UnfedSingle(i) => i \notin fired)
    /\ []((runResult # Pending /\ execResult = Err(DeadlockReport)) =>
             (~runResult.ok /\ runResult.err.t \notin {"OperandError", "SyntaxError", "IdentifierError"}))

\* C9's case: a graph with a station whose single in-bay is never fed, the
\* other stations fired until none was ready, and the deadlock returned by run.
C9_Witness ==
    /\ pc = "returned"
    /\ runResult = Err(DeadlockReport)
    /\ rounds = 0
    /\ Cardinality(fired) >= 2
    /\ \E i \in StationIndices : UnfedSingle(i)

=============================================================================
